---- MODULE Spec2Model ----
(***************************************************************************)
(* Model of the blog server of mbaykara/blog-by-go.                        *)
(*                                                                         *)
(* The repository holds two builds of the same program, src/main.go and    *)
(* src/unnamed/part_000 (both are "package main" with their own main()).    *)
(* The variable build says which of them is running.                       *)
(*                                                                         *)
(* Strings the code takes apart (file names, slugs, titles) are sequences  *)
(* of one-character strings; a Markdown file is a sequence of lines, each  *)
(* line one of "---" (front-matter delimiter), "kv" (a key: value line)     *)
(* and "txt" (a line of text).                                             *)
(***************************************************************************)
EXTENDS Integers, Sequences, FiniteSets, TLC

VARIABLES
    build,      \* "main" (src/main.go) or "part_000" (src/unnamed/part_000)
    fs,         \* the posts directory: path -> file, fixed while the server runs
    dirOK,      \* whether the posts directory can be listed
    alive,      \* the server process is running (FALSE after log.Fatal)
    req,        \* per client: the request in flight or answered
    md,         \* SpecRender: the Markdown file handed to RenderMarkdown
    out         \* SpecRender: what RenderMarkdown did with md

vars == <<build, fs, dirOK, alive, req, md, out>>

\* ------------------------------------------------------------------ bounds

\* most files in the posts directory
MaxFiles == 2
\* modification times are 1..MaxMTime
MaxMTime == 2
\* most lines of a Markdown file in SpecRender
MaxLines == 4

\* ------------------------------------------------------------- characters

MdExt == <<".", "m", "d">>

\* byte order of the characters used, for the sorted result of Glob
Code(c) ==
    CASE c = " " -> 32 [] c = "-" -> 45 [] c = "." -> 46
      [] c = "A" -> 65 [] c = "B" -> 66 [] c = "_" -> 95
      [] c = "a" -> 97 [] c = "b" -> 98 [] c = "d" -> 100
      [] c = "m" -> 109 [] OTHER -> 127

RECURSIVE StrLess(_, _)
StrLess(s, t) ==
    IF t = << >> THEN FALSE
    ELSE IF s = << >> THEN TRUE
    ELSE IF Code(Head(s)) # Code(Head(t)) THEN Code(Head(s)) < Code(Head(t))
    ELSE StrLess(Tail(s), Tail(t))

HasSuffix(s, suf) ==
    /\ Len(s) >= Len(suf)
    /\ SubSeq(s, Len(s) - Len(suf) + 1, Len(s)) = suf

\* strings.TrimSuffix
TrimSuffix(s, suf) ==
    IF HasSuffix(s, suf) THEN SubSeq(s, 1, Len(s) - Len(suf)) ELSE s

\* filepath.Ext: the suffix starting at the last dot of the name, "" without one
Ext(name) ==
    LET dots == {i \in 1..Len(name) : name[i] = "."}
    IN  IF dots = {} THEN << >>
        ELSE LET d == CHOOSE i \in dots : \A j \in dots : j <= i
             IN  SubSeq(name, d, Len(name))

\* strings.ReplaceAll for a one-character pattern
ReplaceAll(s, old, new) ==
    [i \in 1..Len(s) |-> IF s[i] = old THEN new ELSE s[i]]

Upper(c) == CASE c = "a" -> "A" [] c = "b" -> "B" [] OTHER -> c

\* cases.Title(language.English): the first letter of each word in upper case;
\* a '.' between letters does not start a new word
TitleCase(s) ==
    [i \in 1..Len(s) |->
        IF i = 1 \/ s[i - 1] = " " THEN Upper(s[i]) ELSE s[i]]

CleanTitle(filename) ==
    TitleCase(ReplaceAll(ReplaceAll(
        TrimSuffix(filename, Ext(filename)), "-", " "), "_", " "))

\* -------------------------------------------------------------- Markdown

Lines == {"---", "kv", "txt"}

\* the decoders behind frontmatter.Parse, decoding into v = &md, a *[]byte:
\* a block with anything in it does not decode into a byte slice
UnmarshalFails(block) == block # << >>

\* frontmatter.Parse(reader, &md): a file whose first line is the delimiter and
\* that closes the block has the block decoded and removed; any other file is
\* all body
FrontmatterParse(lines) ==
    LET closers == {j \in 2..Len(lines) : lines[j] = "---"}
    IN  IF Len(lines) = 0 \/ lines[1] # "---" \/ closers = {}
        THEN [err |-> FALSE, rest |-> lines]
        ELSE LET j == CHOOSE k \in closers : \A l \in closers : k <= l
             IN  [err  |-> UnmarshalFails(SubSeq(lines, 2, j - 1)),
                  rest |-> SubSeq(lines, j + 1, Len(lines))]

\* markdown.Convert: every line of the body becomes an element of the HTML
Convert(lines) ==
    [i \in 1..Len(lines) |-> [tag |-> "p", text |-> lines[i]]]

NoHTML == << >>

\* RenderMarkdown(filePath), given what os.ReadFile finds at the path:
\* "err" (returned error), "panic" or "ok" with the HTML
RenderMarkdown(readable, lines) ==
    IF ~readable THEN [kind |-> "err", html |-> NoHTML]
    ELSE LET p == FrontmatterParse(lines)
         IN  IF p.err THEN [kind |-> "panic", html |-> NoHTML]
             ELSE [kind |-> "ok", html |-> Convert(p.rest)]

\* ------------------------------------------------------------ file system

PostsDir(b) == IF b = "main" THEN "post" ELSE "posts"

\* slugs of the files the posts directory may hold
Slugs == { <<"a", "-", "b">>, <<"a", ".", "b">>, <<"b", "_", "a">> }
\* slugs a client may ask for: every one above and the empty slug
LookupSlugs == Slugs \cup { << >> }

Plain == <<"txt">>
WithMeta == <<"---", "kv", "---", "txt">>

\* a file is a regular readable file ("ok"), one that cannot be opened
\* ("unreadable") or a symbolic link to nothing ("dangling": the directory
\* lists it, os.Stat and os.ReadFile fail with ENOENT)
Files ==
    [status : {"ok"}, mtime : 1..MaxMTime, lines : {Plain, WithMeta}]
    \cup [status : {"unreadable"}, mtime : {1}, lines : {Plain}]
    \cup [status : {"dangling"}, mtime : {1}, lines : {Plain}]

PathOf(dir, name) == [dir |-> dir, name |-> name]

Exists(path) == path \in DOMAIN fs /\ fs[path].status # "dangling"
Readable(path) == path \in DOMAIN fs /\ fs[path].status = "ok"
ContentOf(path) == IF path \in DOMAIN fs THEN fs[path].lines ELSE << >>

RECURSIVE SortedByName(_)
SortedByName(S) ==
    IF S = {} THEN << >>
    ELSE LET first == CHOOSE p \in S : \A q \in S \ {p} : StrLess(p.name, q.name)
         IN  <<first>> \o SortedByName(S \ {first})

\* filepath.Glob(dir + "/*.md"): the matching paths in name order; errors of
\* reading the directory are ignored (the only error is a bad pattern)
Glob(dir) ==
    IF dirOK
    THEN SortedByName({p \in DOMAIN fs : p.dir = dir /\ HasSuffix(p.name, MdExt)})
    ELSE << >>

\* ----------------------------------------------------------- post records

\* PostData; src is not a field of the code's struct: it records the path the
\* record was built from
PostData(title, date, slug, content, src) ==
    [Title |-> title, Date |-> date, Slug |-> slug, Content |-> content, src |-> src]

SlugOfKeepExt(filename) == filename

\* slug := strings.TrimSuffix(filename, filepath.Ext(filename))
SlugOf(filename) == TrimSuffix(filename, Ext(filename))

NoPosts == << >>

\* the loop of LoadBlogPosts over files[i..]
RECURSIVE LoadLoop(_, _, _)
LoadLoop(files, i, posts) ==
    IF i > Len(files) THEN [kind |-> "ok", posts |-> posts]
    ELSE LET file == files[i]
             filename == file.name
         IN  IF ~Exists(file) THEN [kind |-> "err", posts |-> NoPosts]
             ELSE LET content == RenderMarkdown(Readable(file), ContentOf(file))
                  IN  IF content.kind # "ok"
                      THEN [kind |-> content.kind, posts |-> NoPosts]
                      ELSE LoadLoop(files, i + 1, Append(posts,
                               PostData(CleanTitle(filename), fs[file].mtime,
                                        SlugOf(filename), content.html, file)))

\* the less function of sort.Slice: posts[i].Date.After(posts[j].Date)
Less(p, q) == p.Date > q.Date

\* sort.Slice is not stable: any ordering of the records in which no later
\* record is less than an earlier one
SortSlice(posts) ==
    LET n == Len(posts)
        perms == {f \in [1..n -> 1..n] : \A i, j \in 1..n : f[i] = f[j] => i = j}
    IN  { [i \in 1..n |-> posts[f[i]]] : f \in
            {g \in perms : \A i, j \in 1..n : i < j => ~Less(posts[g[j]], posts[g[i]])} }

\* LoadBlogPosts: every result it may return
LoadBlogPosts ==
    LET r == LoadLoop(Glob(PostsDir(build)), 1, NoPosts)
    IN  IF r.kind # "ok" THEN {r}
        ELSE {[kind |-> "ok", posts |-> s] : s \in SortSlice(r.posts)}

\* filepath.Join(<posts dir>, slug+".md")
LookupPath(slug) == PathOf(PostsDir(build), slug \o MdExt)

\* time.Now() when a request is served: not before any file's modification
NowTimes == {MaxMTime, MaxMTime + 1}

\* the single-post lookup of src/main.go (PostHandler, up to its PostData)
LookupMain(slug, now) ==
    LET filePath == LookupPath(slug)
        content == RenderMarkdown(Readable(filePath), ContentOf(filePath))
    IN  IF content.kind # "ok" THEN [kind |-> content.kind, posts |-> NoPosts]
        ELSE [kind |-> "ok",
              posts |-> <<PostData(CleanTitle(slug), now, slug, content.html, filePath)>>]

\* LoadPost of src/unnamed/part_000
LoadPost(slug) ==
    LET file == LookupPath(slug)
    IN  IF file \notin DOMAIN fs \/ fs[file].status = "dangling"
        THEN [kind |-> "err", posts |-> NoPosts]
        ELSE LET content == RenderMarkdown(Readable(file), ContentOf(file))
             IN  IF content.kind # "ok" THEN [kind |-> content.kind, posts |-> NoPosts]
                 ELSE [kind |-> "ok",
                       posts |-> <<PostData(CleanTitle(file.name), fs[file].mtime,
                                            slug, content.html, file)>>]

\* ---------------------------------------------------------------- routing

Clients == {"c1", "c2"}

\* a URL path: "/" + first, then "/" + rest when slash
URL(first, slash, rest) == [first |-> first, slash |-> slash, rest |-> rest]

Root == URL("", FALSE, << >>)
PostURL(slug) == URL("post", TRUE, slug)
PostsURL(slug) == URL("posts", TRUE, slug)
AboutURL == URL("about", FALSE, << >>)
ContactURL == URL("contact", FALSE, << >>)

Requests ==
    {Root, AboutURL, ContactURL}
    \cup {PostURL(s) : s \in LookupSlugs}
    \cup {PostsURL(s) : s \in Slugs}

RoutePostsToo(path) ==
    IF path.first \in {"post", "posts"} /\ path.slash THEN "PostHandler"
    ELSE IF path = AboutURL THEN "AboutHandler"
    ELSE IF path = ContactURL THEN "ContactHandler"
    ELSE "HomeHandler"

\* the patterns main() registers with http.HandleFunc: "/post/" takes the paths
\* that start with it, "/about" and "/contact" only themselves, "/" the rest
Route(path) ==
    IF path.first = "post" /\ path.slash THEN "PostHandler"
    ELSE IF path = AboutURL THEN "AboutHandler"
    ELSE IF path = ContactURL THEN "ContactHandler"
    ELSE "HomeHandler"

\* --------------------------------------------------------------- handlers

\* what template.ParseFiles and tmpl.Execute do for the pair of templates of a
\* page: "missing" (ParseFiles fails), "ok", "execEarly" (Execute fails before
\* it wrote anything), "execLate" (Execute fails after it wrote part of the page)
TmplStates == {"ok", "missing", "execEarly", "execLate"}

\* nav/about.md and nav/contact.md as a request finds them
NavFiles ==
    {[readable |-> FALSE, lines |-> Plain],
     [readable |-> TRUE, lines |-> Plain],
     [readable |-> TRUE, lines |-> WithMeta]}

NoData == [kind |-> "none", posts |-> NoPosts]

\* how a handler ended: end is "responded" (it returned), "panicked" (net/http
\* recovers the panic and drops the connection: no response) or "fatal"
\* (log.Fatal: the process exits); status is the status line the client got, 0
\* for none; complete says the whole page was written
Outcome(data, tmpl, end, status, page, complete) ==
    [data |-> data, tmpl |-> tmpl, end |-> end, status |-> status,
     page |-> page, complete |-> complete]

NotFoundAs200(data) == Outcome(data, "none", "responded", 200, "post", TRUE)

\* http.NotFound / http.Error(w, "Post not found", http.StatusNotFound)
NotFound(data) == Outcome(data, "none", "responded", 404, "error", TRUE)

\* http.Error(w, "Error loading ... page", http.StatusInternalServerError)
LoadError(data) == Outcome(data, "none", "responded", 500, "error", TRUE)

Panicked(data, tmpl) == Outcome(data, tmpl, "panicked", 0, "none", FALSE)

\* template.Must(template.ParseFiles(...)), tmpl.Execute and the http.Error
\* after it, as PostHandler, AboutHandler and ContactHandler have them
Render(data, tmpl, page) ==
    CASE tmpl = "missing" -> Panicked(data, tmpl)
      [] tmpl = "ok" -> Outcome(data, tmpl, "responded", 200, page, TRUE)
      [] tmpl = "execEarly" -> Outcome(data, tmpl, "responded", 500, "error", TRUE)
      [] OTHER -> Outcome(data, tmpl, "responded", 200, page, FALSE)

\* HomeHandler after LoadBlogPosts returned posts
RenderHome(data, tmpl) ==
    CASE tmpl = "missing" -> Panicked(data, tmpl)
      [] tmpl = "ok" -> Outcome(data, tmpl, "responded", 200, "home", TRUE)
      [] tmpl = "execEarly" -> Outcome(data, tmpl, "fatal", 0, "none", FALSE)
      [] OTHER -> Outcome(data, tmpl, "fatal", 200, "home", FALSE)

HomeHandler ==
    UNION { IF r.kind = "err" THEN {Outcome(r, "none", "fatal", 0, "none", FALSE)}
            ELSE IF r.kind = "panic" THEN {Panicked(r, "none")}
            ELSE {RenderHome(r, t) : t \in TmplStates}
          : r \in LoadBlogPosts }

PostHandler(path) ==
    LET slug == path.rest
        loads == IF build = "main" THEN {LookupMain(slug, now) : now \in NowTimes}
                 ELSE {LoadPost(slug)}
    IN  UNION { IF r.kind = "err" THEN {NotFound(r)}
                ELSE IF r.kind = "panic" THEN {Panicked(r, "none")}
                ELSE {Render(r, t, "post") : t \in TmplStates}
              : r \in loads }

\* AboutHandler and ContactHandler
StaticHandler(page) ==
    UNION { LET content == RenderMarkdown(f.readable, f.lines)
                data == [kind |-> content.kind, posts |-> NoPosts]
            IN  IF content.kind = "err" THEN {LoadError(data)}
                ELSE IF content.kind = "panic" THEN {Panicked(data, "none")}
                ELSE {Render(data, t, page) : t \in TmplStates}
          : f \in NavFiles }

\* ----------------------------------------------------------------- server

Idle ==
    [pc |-> "idle", path |-> Root, handler |-> "none"]
    @@ Outcome(NoData, "none", "none", 0, "none", FALSE)

NotRendered == [kind |-> "none", html |-> NoHTML]

PostPaths(b) == {PathOf(PostsDir(b), s \o MdExt) : s \in Slugs}

Init ==
    /\ build \in {"main", "part_000"}
    /\ dirOK \in BOOLEAN
    /\ fs \in UNION { [P -> Files] :
                      P \in {Q \in SUBSET PostPaths(build) : Cardinality(Q) <= MaxFiles} }
    /\ alive = TRUE
    /\ req = [c \in Clients |-> Idle]
    /\ md = << >>
    /\ out = NotRendered

\* the server accepts a request and starts its handler in a goroutine
Accept(c, path) ==
    /\ alive
    /\ req[c].pc = "idle"
    /\ req' = [req EXCEPT ![c] = [@ EXCEPT !.pc = "running", !.path = path,
                                           !.handler = Route(path)]]
    /\ UNCHANGED <<build, fs, dirOK, alive, md, out>>

Finish(c, o) ==
    /\ req' = [req EXCEPT ![c] =
                  [pc |-> "done", path |-> @.path, handler |-> @.handler] @@ o]
    /\ alive' = (o.end # "fatal")
    /\ UNCHANGED <<build, fs, dirOK, md, out>>

ServeHome(c) ==
    /\ alive
    /\ req[c].pc = "running"
    /\ req[c].handler = "HomeHandler"
    /\ \E o \in HomeHandler : Finish(c, o)

ServePost(c) ==
    /\ alive
    /\ req[c].pc = "running"
    /\ req[c].handler = "PostHandler"
    /\ \E o \in PostHandler(req[c].path) : Finish(c, o)

ServeAbout(c) ==
    /\ alive
    /\ req[c].pc = "running"
    /\ req[c].handler = "AboutHandler"
    /\ \E o \in StaticHandler("about") : Finish(c, o)

ServeContact(c) ==
    /\ alive
    /\ req[c].pc = "running"
    /\ req[c].handler = "ContactHandler"
    /\ \E o \in StaticHandler("contact") : Finish(c, o)

Next ==
    \E c \in Clients :
        \/ \E path \in Requests : Accept(c, path)
        \/ ServeHome(c)
        \/ ServePost(c)
        \/ ServeAbout(c)
        \/ ServeContact(c)

Spec == Init /\ [][Next]_vars

\* --------------------------------------------- RenderMarkdown on its own

RECURSIVE SeqsUpTo(_, _)
SeqsUpTo(S, n) ==
    IF n = 0 THEN {<< >>}
    ELSE LET shorter == SeqsUpTo(S, n - 1)
         IN  shorter \cup {Append(s, x) : s \in shorter, x \in S}

InitRender ==
    /\ md \in SeqsUpTo(Lines, MaxLines)
    /\ out = NotRendered
    /\ build \in {"main", "part_000"}
    /\ dirOK = TRUE
    /\ fs = << >>
    /\ alive = TRUE
    /\ req = [c \in Clients |-> Idle]

\* RenderMarkdown on a readable file holding md
CallRenderMarkdown ==
    /\ out.kind = "none"
    /\ out' = RenderMarkdown(TRUE, md)
    /\ UNCHANGED <<build, fs, dirOK, alive, req, md>>

NextRender == CallRenderMarkdown

SpecRender == InitRender /\ [][NextRender]_vars

\* ------------------------------------------------------------- properties

Done(c) == req[c].pc = "done"
IsPostURL(path) == path.first = "post" /\ path.slash
IsPostsURL(path) == path.first = "posts" /\ path.slash
\* the file <posts dir>/<slug>.md
FileOfSlug(slug) == [dir |-> PostsDir(build), name |-> slug \o <<".", "m", "d">>]
Separators == {"-", "_"}

\* C1: for a posts directory that can be listed and holds N readable *.md
\* files, LoadBlogPosts returns exactly N records, one per file, and no record
\* is older than the one after it.
C1_ListingReturnsAll ==
    \A c \in Clients :
        ( /\ Done(c)
          /\ req[c].handler = "HomeHandler"
          /\ dirOK
          /\ \A p \in DOMAIN fs : fs[p].status = "ok" )
        => LET posts == req[c].data.posts
           IN  /\ req[c].data.kind = "ok"
               /\ Len(posts) = Cardinality(DOMAIN fs)
               /\ {posts[i].src : i \in 1..Len(posts)} = DOMAIN fs
               /\ \A i \in 1..(Len(posts) - 1) : posts[i].Date >= posts[i + 1].Date

\* C2: a request to /post/<slug> whose file <posts dir>/<slug>.md does not
\* exist (the empty slug included) is answered 404 once its handler has run:
\* the handler returned (no panic, no process exit) and rendered no page.
C2_MissingSlugIs404 ==
    \A c \in Clients :
        ( /\ Done(c)
          /\ IsPostURL(req[c].path)
          /\ FileOfSlug(req[c].path.rest) \notin DOMAIN fs )
        => /\ req[c].end = "responded"
           /\ req[c].status = 404
           /\ req[c].page = "error"
           /\ req[c].data.posts = << >>

C2_Witness ==
    \E c \in Clients :
        /\ Done(c)
        /\ req[c].path = PostURL(<< >>)
        /\ FileOfSlug(<< >>) \notin DOMAIN fs
        /\ req[c].status = 404
        /\ \E d \in Clients : Done(d) /\ req[d].path.rest \in Slugs
                              /\ IsPostURL(req[d].path)
                              /\ FileOfSlug(req[d].path.rest) \notin DOMAIN fs
                              /\ DOMAIN fs # {}

\* C3 as stated: a request to /posts/{slug} is served by the single-post
\* handler: never answered with the home page, and 404 when the file is missing.
C3_PostsServedAsPost ==
    \A c \in Clients :
        (Done(c) /\ IsPostsURL(req[c].path))
        => /\ req[c].handler = "PostHandler"
           /\ req[c].page # "home"
           /\ (FileOfSlug(req[c].path.rest) \notin DOMAIN fs => req[c].status = 404)

\* C3 as amended: /post/{slug} is served by the single-post handler;
\* /posts/{slug} is not a registered route and is served by the home-page
\* handler, which answers with the listing (or not at all), whether or not the
\* file exists, and never 404.
C3_RoutesAsRegistered ==
    \A c \in Clients :
        /\ (req[c].pc # "idle" /\ IsPostURL(req[c].path))
           => req[c].handler = "PostHandler"
        /\ (req[c].pc # "idle" /\ IsPostsURL(req[c].path))
           => /\ req[c].handler = "HomeHandler"
              /\ Done(c) => /\ req[c].status \in {0, 200}
                            /\ req[c].status = 200 => req[c].page = "home"

C3_Witness ==
    \E c, d \in Clients :
        /\ Done(c) /\ IsPostsURL(req[c].path)
        /\ FileOfSlug(req[c].path.rest) \in DOMAIN fs
        /\ req[c].status = 200 /\ req[c].page = "home" /\ req[c].complete
        /\ Done(d) /\ req[d].path = PostURL(req[c].path.rest)
        /\ req[d].status = 200 /\ req[d].page = "post"

\* C4: a failure inside one request never prevents another in-flight request
\* from completing: no request is left in flight by the process exiting.
C4_NoRequestAbandoned ==
    \A c \in Clients : req[c].pc = "running" => alive

\* C5: in every handler, a failure to load or to execute the templates is
\* answered with HTTP 500 by a handler that returns.
C5_TemplateFailureIs500 ==
    \A c \in Clients :
        (Done(c) /\ req[c].tmpl \in {"missing", "execEarly", "execLate"})
        => req[c].status = 500 /\ req[c].end = "responded"

\* C6: LoadBlogPosts returns an error and no list whenever the posts directory
\* cannot be read or the metadata of a matched file cannot be retrieved (here
\* on directories none of whose files has a metadata block).
C6_ListingFailsOnFsError ==
    \A c \in Clients :
        ( /\ Done(c)
          /\ req[c].handler = "HomeHandler"
          /\ \A p \in DOMAIN fs : fs[p].lines = Plain
          /\ \/ ~dirOK
             \/ \E p \in DOMAIN fs : fs[p].status = "dangling" )
        => req[c].data.kind = "err" /\ req[c].data.posts = << >>

\* the title is the slug with '-' and '_' replaced by spaces and the first
\* letter of every word in upper case, everything else in place
TitleMatches(slug, title) ==
    /\ Len(title) = Len(slug)
    /\ \A i \in 1..Len(slug) :
        IF slug[i] \in Separators THEN title[i] = " "
        ELSE IF i = 1 \/ slug[i - 1] \in Separators
             THEN title[i] = (CASE slug[i] = "a" -> "A" [] slug[i] = "b" -> "B"
                                [] OTHER -> slug[i])
             ELSE title[i] \in {slug[i], "A", "B"} /\ (slug[i] = "." => title[i] = ".")

\* C7: every post record, of the listing or of the single-post path, has the
\* title derived from its slug, slugs with a '.' included.
C7_TitleFromSlug ==
    \A c \in Clients :
        \A i \in 1..Len(req[c].data.posts) :
            TitleMatches(req[c].data.posts[i].Slug, req[c].data.posts[i].Title)

\* the file starts with a delimiter line and a later delimiter closes the block
BeginsWithBlock(lines) ==
    /\ Len(lines) >= 2
    /\ lines[1] = "---"
    /\ \E j \in 2..Len(lines) : lines[j] = "---"

BlockEnd(lines) ==
    CHOOSE j \in 2..Len(lines) :
        lines[j] = "---" /\ \A k \in 2..(j - 1) : lines[k] # "---"

\* C8: for every file that begins with a metadata block, RenderMarkdown
\* returns successfully and its HTML holds the lines after the block and
\* nothing else.
C8_MetadataStripped ==
    (out.kind # "none" /\ BeginsWithBlock(md))
    => /\ out.kind = "ok"
       /\ Len(out.html) = Len(md) - BlockEnd(md)
       /\ \A i \in 1..Len(out.html) : out.html[i].text = md[BlockEnd(md) + i]

\* C9: in every listing LoadBlogPosts returns, slugs are pairwise distinct and
\* the path the single-post lookup builds from a record's slug is the file the
\* record was built from.
C9_SlugMapsBack ==
    \A c \in Clients :
        (Done(c) /\ req[c].handler = "HomeHandler" /\ req[c].data.kind = "ok")
        => LET posts == req[c].data.posts
           IN  /\ \A i, j \in 1..Len(posts) :
                    posts[i].Slug = posts[j].Slug => i = j
               /\ \A i \in 1..Len(posts) :
                    /\ LookupPath(posts[i].Slug) = posts[i].src
                    /\ posts[i].src \in DOMAIN fs

C9_Witness ==
    \E c \in Clients :
        /\ Done(c) /\ req[c].handler = "HomeHandler" /\ req[c].data.kind = "ok"
        /\ Len(req[c].data.posts) = MaxFiles
        /\ \E i \in 1..Len(req[c].data.posts) :
                req[c].data.posts[i].Slug = <<"a", ".", "b">>

\* C10: the record the single-post lookup builds for an existing slug carries
\* the file's last-modified timestamp as its date.
C10_DateIsMTime ==
    \A c \in Clients :
        (Done(c) /\ req[c].handler = "PostHandler" /\ req[c].data.kind = "ok")
        => LET post == req[c].data.posts[1]
           IN  post.Date = fs[FileOfSlug(req[c].path.rest)].mtime

====
